---- MODULE Spec2Model ----
(***************************************************************************)
(* The chapter scrape endpoint of Sino-verse (src/api/scrape.ts).          *)
(*                                                                         *)
(* Strings are sequences of tokens.  A token is an indivisible run of      *)
(* characters (a word, a run of digits, a run of white space, a piece of   *)
(* URL syntax) with a fixed length in UTF-16 code units; no phrase the     *)
(* code searches for straddles a token boundary, and two digit tokens are  *)
(* never adjacent, so substring search is contiguous sub-sequence search   *)
(* and \d+ captures exactly one digit token.  Tokens are spelled in ASCII:  *)
(* "zh_qingzai" is U+8BF7 U+5728, "zh_zuixinzhangjie" U+6700 U+65B0 U+7AE0  *)
(* U+8282, "zh_benzhanyuming" U+672C U+7AD9 U+57DF U+540D,                 *)
(* "zh_zhangjiebaocuo" U+7AE0 U+8282 U+62A5 U+9519, "zh_di" U+7B2C,        *)
(* "zh_zhang" U+7AE0, "zh_hua" U+8A71, "zh_pian" U+7BC7, "ko_hwa" U+D654,  *)
(* "zh_fenjuanyuedu" U+5206 U+5377 U+9605 U+8BFB, "zh_xiayizhang" U+4E0B   *)
(* U+4E00 U+7AE0, "zh_shangyizhang" U+4E0A U+4E00 U+7AE0.                  *)
(***************************************************************************)
EXTENDS Integers, Sequences, FiniteSets, TLC

VARIABLES pc, req, res, paragraphs, sug, app, loads, modal, groq

vars == <<pc, req, res, paragraphs, sug, app, loads, modal, groq>>

-----------------------------------------------------------------------------
(* Text *)

WS == " "

DigitVal ==
  ("0" :> 0) @@ ("00" :> 0) @@ ("5" :> 5) @@ ("16" :> 16) @@ ("17" :> 17) @@ ("18" :> 18) @@
  ("42" :> 42) @@ ("123" :> 123)

DigitLen ==
  ("0" :> 1) @@ ("00" :> 2) @@ ("5" :> 1) @@ ("16" :> 2) @@ ("17" :> 2) @@ ("18" :> 2) @@
  ("42" :> 2) @@ ("123" :> 3)

IsDigits(t) == t \in DOMAIN DigitVal

\* parseInt(s, 10) of a captured \d+ group
ParseInt(t) == DigitVal[t]

WordLen ==
  ("Hello" :> 5) @@ ("World" :> 5) @@ ("Hello!" :> 6) @@
  ("LoremA" :> 100) @@ ("LoremB" :> 100) @@
  ("Advertisement" :> 13) @@ ("ADVERTISEMENT" :> 13) @@ ("advertisement" :> 13) @@
  ("read at" :> 7) @@ ("Please support our website" :> 26) @@
  ("Share this chapter" :> 18) @@
  ("Chapter" :> 7) @@ ("CHAPTER" :> 7) @@ ("chapter" :> 7) @@
  ("Prologue" :> 8) @@ ("Next" :> 4) @@ ("next" :> 4) @@
  ("Previous" :> 8) @@ ("previous" :> 8) @@
  ("https://" :> 8) @@ ("http://" :> 7) @@ ("HTTP://" :> 7) @@ ("ftp://" :> 6) @@
  ("https:" :> 6) @@ ("http:" :> 5) @@ ("ftp:" :> 4) @@
  ("javascript:" :> 11) @@ ("void(0)" :> 7) @@ ("cdn.example" :> 11) @@
  ("p=2" :> 3) @@ ("Unknown Chapter" :> 15) @@
  ("//" :> 2) @@ ("/" :> 1) @@ ("-" :> 1) @@ ("_" :> 1) @@ ("#" :> 1) @@
  ("." :> 1) @@ ("?" :> 1) @@
  (".html" :> 5) @@ ("novel" :> 5) @@ ("book" :> 4) @@ ("top" :> 3) @@
  ("viewnum=" :> 8) @@ ("view_num=" :> 9) @@
  ("site.example" :> 12) @@ ("other.example" :> 13) @@ ("bad host" :> 8) @@
  ("content" :> 7) @@ ("missing" :> 7) @@
  ("main" :> 4) @@ ("entry" :> 5) @@ ("article" :> 7) @@ ("body" :> 4) @@
  ("text" :> 4) @@ ("list" :> 4) @@ ("sidebar" :> 7) @@ ("comment" :> 7) @@
  ("s" :> 1) @@ ("story" :> 5) @@ ("post" :> 4) @@ ("ad" :> 2) @@ ("col" :> 3) @@
  ("zh_qingzai" :> 2) @@ ("zh_zuixinzhangjie" :> 4) @@ ("zh_benzhanyuming" :> 4) @@
  ("zh_zhangjiebaocuo" :> 4) @@ ("zh_di" :> 1) @@ ("zh_zhang" :> 1) @@
  ("zh_hua" :> 1) @@ ("zh_pian" :> 1) @@ ("ko_hwa" :> 1) @@
  ("zh_fenjuanyuedu" :> 4) @@ ("zh_xiayizhang" :> 3) @@ ("zh_shangyizhang" :> 3) @@
  ("\n\n" :> 2) @@
  ("Content not found with selector (\"" :> 34) @@
  ("\") on " :> 6) @@
  (" or was empty after cleaning." :> 29) @@
  ("Content not found. The selector \"" :> 33) @@
  ("\" did not match any elements on the page " :> 41) @@
  (". Try using the \"Suggest\" button." :> 33) @@
  ("Failed to scrape chapter content from " :> 38) @@
  (". Reason: " :> 10) @@
  ("Failed to fetch: " :> 17) @@
  ("from " :> 5) @@
  ("URL parameter is required" :> 25) @@
  ("Selector parameter is required" :> 30)

\* String.prototype.length of one token
TokLen(t) ==
  IF t = WS THEN 1
  ELSE IF IsDigits(t) THEN DigitLen[t]
  ELSE WordLen[t]

RECURSIVE TextLen(_)
TextLen(s) == IF s = <<>> THEN 0 ELSE TokLen(Head(s)) + TextLen(Tail(s))

LowerTable ==
  ("Advertisement" :> "advertisement") @@ ("ADVERTISEMENT" :> "advertisement") @@
  ("Chapter" :> "chapter") @@ ("CHAPTER" :> "chapter") @@
  ("Hello" :> "hello") @@ ("World" :> "world") @@ ("Hello!" :> "hello!") @@
  ("LoremA" :> "lorema") @@ ("LoremB" :> "loremb") @@
  ("Prologue" :> "prologue") @@ ("Next" :> "next") @@ ("Previous" :> "previous") @@
  ("HTTP://" :> "http://") @@
  ("Please support our website" :> "please support our website") @@
  ("Share this chapter" :> "share this chapter")

\* String.prototype.toLowerCase
ToLowerCase(s) ==
  [i \in 1..Len(s) |-> IF s[i] \in DOMAIN LowerTable THEN LowerTable[s[i]] ELSE s[i]]

\* String.prototype.includes / the :contains() pseudo-class
Includes(s, phrase) ==
  \E i \in 1..(Len(s) - Len(phrase) + 1) : SubSeq(s, i, i + Len(phrase) - 1) = phrase

StartsWith(s, prefix) ==
  /\ Len(s) >= Len(prefix)
  /\ SubSeq(s, 1, Len(prefix)) = prefix

RECURSIVE TrimStart(_)
TrimStart(s) == IF s # <<>> /\ Head(s) = WS THEN TrimStart(Tail(s)) ELSE s

RECURSIVE TrimEnd(_)
TrimEnd(s) ==
  IF s # <<>> /\ s[Len(s)] = WS THEN TrimEnd(SubSeq(s, 1, Len(s) - 1)) ELSE s

\* String.prototype.trim
Trim(s) == TrimEnd(TrimStart(s))

\* Array.prototype.join
RECURSIVE Join(_, _)
Join(ps, sep) ==
  IF ps = <<>> THEN <<>>
  ELSE IF Len(ps) = 1 THEN ps[1]
  ELSE ps[1] \o sep \o Join(Tail(ps), sep)

RECURSIVE Concat(_)
Concat(ss) == IF ss = <<>> THEN <<>> ELSE Head(ss) \o Concat(Tail(ss))

-----------------------------------------------------------------------------
(* The DOM that cheerio.load builds: a tree of element and text nodes *)

Undefined == <<"<undefined>">>
Null == <<"<null>">>

Txt(d) ==
  [type |-> "text", name |-> "", id |-> "", cls |-> "", rel |-> "",
   href |-> Undefined, data |-> d, kids |-> <<>>]

Elem(n, i, c, ks) ==
  [type |-> "tag", name |-> n, id |-> i, cls |-> c, rel |-> "",
   href |-> Undefined, data |-> <<>>, kids |-> ks]

Anchor(i, c, r, h, ks) ==
  [type |-> "tag", name |-> "a", id |-> i, cls |-> c, rel |-> r,
   href |-> h, data |-> <<>>, kids |-> ks]

\* .text(): the data of all text nodes below a node, in document order
RECURSIVE TextOf(_)
TextOf(n) ==
  IF n.type = "text" THEN n.data
  ELSE Concat([i \in 1..Len(n.kids) |-> TextOf(n.kids[i])])

\* the element nodes of a subtree in document order, the root first
RECURSIVE Elems(_)
Elems(n) ==
  IF n.type = "text" THEN <<>>
  ELSE <<n>> \o Concat([i \in 1..Len(n.kids) |-> Elems(n.kids[i])])

\* the elements strictly below a node (what .find() searches)
Descendants(n) == Concat([i \in 1..Len(n.kids) |-> Elems(n.kids[i])])

\* the request's selector: one simple selector, #id, .class or tag
IdSel(v) == [kind |-> "id", val |-> v]
ClassSel(v) == [kind |-> "class", val |-> v]
TagSel(v) == [kind |-> "tag", val |-> v]

Matches(n, sel) ==
  /\ n.type = "tag"
  /\ CASE sel.kind = "id" -> n.id = sel.val
       [] sel.kind = "class" -> n.cls = sel.val
       [] OTHER -> n.name = sel.val

\* the selector as it is spelled in a message
SelText(sel) ==
  CASE sel.kind = "id" -> <<"#", sel.val>>
    [] sel.kind = "class" -> <<".", sel.val>>
    [] OTHER -> <<sel.val>>

\* $(selector)
Select(doc, sel) == SelectSeq(Elems(doc), LAMBDA n : Matches(n, sel))

-----------------------------------------------------------------------------
(* Junk removal *)

JunkPhrases ==
  { <<"zh_qingzai">>, <<"read at">>, <<"zh_zuixinzhangjie">>, <<"zh_benzhanyuming">>,
    <<"Advertisement">>, <<"zh_zhangjiebaocuo">>, <<"Please support our website">>,
    <<"Share this chapter">> }

\* attribute values that contain the substring 'advert'
HasAdvert(v) == v \in {"advert", "advertisement", "advert-box"}

\* one element against junkSelectors.join(', ')
junkSelectors(n) ==
  \/ LET t == TextOf(n) IN \E ph \in JunkPhrases : Includes(t, ph)
  \/ n.name \in {"script", "style", "iframe"}
  \/ n.cls \in {"ads", "ad", "advertisement", "comment-section", "post-comments"}
  \/ n.id \in {"ads", "ad-container", "comments"}
  \/ HasAdvert(n.cls)
  \/ HasAdvert(n.id)

\* $content.find(junkSelectors).remove() on one content element: every
\* element below it that matches is detached with its subtree
RECURSIVE RemoveJunk(_)
RemoveJunk(n) ==
  IF n.type = "text" THEN n
  ELSE LET keep == SelectSeq(n.kids, LAMBDA k : ~(k.type = "tag" /\ junkSelectors(k)))
       IN  [n EXCEPT !.kids = [i \in 1..Len(keep) |-> RemoveJunk(keep[i])]]

\* the document after the removal
RECURSIVE CleanDoc(_, _)
CleanDoc(n, sel) ==
  IF n.type = "text" THEN n
  ELSE IF Matches(n, sel) THEN RemoveJunk(n)
  ELSE [n EXCEPT !.kids = [i \in 1..Len(n.kids) |-> CleanDoc(n.kids[i], sel)]]

\* $content after the removal
Content(doc, sel) ==
  LET m == Select(doc, sel) IN [i \in 1..Len(m) |-> RemoveJunk(m[i])]

-----------------------------------------------------------------------------
(* Paragraph extraction *)

MinPTags == 3
MinContentLength == 200
MinPLength == 10
MinParagraphs == 3
MinFallbackLength == 5

Push(arr, x) == Append(arr, x)

AdvertisementFree(text) == ~Includes(ToLowerCase(text), <<"advertisement">>)

\* $content.find('p')
FindP(content) ==
  Concat([i \in 1..Len(content) |->
            SelectSeq(Descendants(content[i]), LAMBDA n : n.name = "p")])

\* $content.text()
ContentText(content) == Concat([i \in 1..Len(content) |-> TextOf(content[i])])

\* $content.contents()
Contents(content) == Concat([i \in 1..Len(content) |-> content[i].kids])

\* the callback of $paragraphs.each
RECURSIVE PrimaryEach(_, _)
PrimaryEach(ps, acc) ==
  IF ps = <<>> THEN acc
  ELSE LET text == Trim(TextOf(Head(ps)))
       IN  PrimaryEach(Tail(ps),
             IF text # <<>> /\ TextLen(text) > MinPLength /\ AdvertisementFree(text)
             THEN Push(acc, text) ELSE acc)

PrimaryParagraphs(content) ==
  LET ps == FindP(content) IN
  IF Len(ps) > MinPTags /\ TextLen(ContentText(content)) > MinContentLength
  THEN PrimaryEach(ps, <<>>)
  ELSE <<>>

\* the 'br' branch of the fallback callback
BrBreak(el, acc) ==
  IF el.type = "tag" /\ el.name = "br" /\ Len(acc) > 0 /\ acc[Len(acc)] # <<>>
  THEN Push(acc, <<>>) ELSE acc

\* the text the fallback callback takes from one child node
FallbackText(el) ==
  IF el.type = "tag"
  THEN IF el.name \in {"div", "section", "article"} THEN Trim(TextOf(el)) ELSE <<>>
  ELSE Trim(TextOf(el))

\* the callback of $content.contents().each
RECURSIVE FallbackEach(_, _)
FallbackEach(els, acc) ==
  IF els = <<>> THEN acc
  ELSE LET el == Head(els)
           text == FallbackText(el)
           acc1 == BrBreak(el, acc)
       IN  FallbackEach(Tail(els),
             IF /\ text # <<>>
                /\ TextLen(text) > MinFallbackLength
                /\ AdvertisementFree(text)
                /\ (Len(acc1) = 0 \/ acc1[Len(acc1)] # text)
             THEN Push(acc1, text) ELSE acc1)

\* paragraphs, after both strategies
Paragraphs(content) ==
  LET primary == PrimaryParagraphs(content) IN
  IF Len(primary) < MinParagraphs
  THEN FallbackEach(Contents(content), <<>>)
  ELSE primary

finalParagraphs(content) ==
  SelectSeq(Paragraphs(content), LAMBDA p : TextLen(Trim(p)) > 0)

ParagraphSep == <<"\n\n">>

finalContent(content) == Join(finalParagraphs(content), ParagraphSep)

Placeholder(sel, url) ==
  <<"Content not found with selector (\"">> \o SelText(sel) \o <<"\") on ">> \o url
    \o <<" or was empty after cleaning.">>

\* contentToReturn without the '||' fallback
contentToReturn_NoFallback(content, sel, url) == finalContent(content)

contentToReturn(content, sel, url) ==
  LET joined == finalContent(content) IN
  IF joined # <<>> THEN joined ELSE Placeholder(sel, url)

-----------------------------------------------------------------------------
(* Title and pagination links *)

onPageTitleSelectors(n) ==
  \/ n.cls = "chapter-title"
  \/ n.id = "chapter-title"
  \/ LET t == TextOf(n)
     IN  \/ Includes(t, <<"zh_fenjuanyuedu">>)
         \/ Includes(t, <<"Chapter", WS>>)
         \/ Includes(t, <<"CHAPTER", WS>>)
         \/ Includes(t, <<"zh_di">>)
  \/ n.cls \in {"content-title", "entry-title"}
  \/ n.name \in {"h1", "h2"}
  \/ n.cls = "toon-title"

\* $(allTitleSelectors) below n, in document order; inside: an ancestor of
\* n matches the request's selector
RECURSIVE allTitleSelectors(_, _, _)
allTitleSelectors(n, sel, inside) ==
  IF n.type = "text" THEN <<>>
  ELSE (IF onPageTitleSelectors(n) \/ (inside /\ n.name \in {"h1", "h2", "h3"})
        THEN <<n>> ELSE <<>>)
       \o Concat([i \in 1..Len(n.kids) |->
                    allTitleSelectors(n.kids[i], sel, inside \/ Matches(n, sel))])

\* .first().text() of a selection
FirstText(m) == IF m = <<>> THEN <<>> ELSE TextOf(m[1])

\* .first().attr('href') of a selection
FirstHref(m) == IF m = <<>> THEN Undefined ELSE m[1].href

\* onPageTitle without the '|| "Unknown Chapter"' default
onPageTitle_NoDefault(doc, sel) == Trim(FirstText(allTitleSelectors(doc, sel, FALSE)))

onPageTitle(doc, sel) ==
  LET t == Trim(FirstText(allTitleSelectors(doc, sel, FALSE)))
  IN  IF t # <<>> THEN t ELSE <<"Unknown Chapter">>

nextLinkSelectors(n) ==
  \/ /\ n.name = "a"
     /\ LET t == TextOf(n) IN
        \/ Includes(t, <<"Next", WS, "Chapter">>)
        \/ Includes(t, <<"next", WS, "chapter">>)
        \/ Includes(t, <<"Next">>)
        \/ Includes(t, <<"next">>)
        \/ n.rel = "next"
        \/ n.cls \in {"next-page", "nav-next", "btn-next"}
        \/ n.id = "next_chap"
        \/ Includes(t, <<"zh_xiayizhang">>)
        \/ Includes(t, <<"zh_xiazhang">>)
        \/ Includes(t, <<"ko_daeumhwa">>)
        \/ Includes(t, <<"ko_daeum", WS, "ko_pyeon">>)
  \/ n.id = "goNextBtn"

prevLinkSelectors(n) ==
  \/ /\ n.name = "a"
     /\ LET t == TextOf(n) IN
        \/ Includes(t, <<"Previous", WS, "Chapter">>)
        \/ Includes(t, <<"previous", WS, "chapter">>)
        \/ Includes(t, <<"Previous">>)
        \/ Includes(t, <<"previous">>)
        \/ n.rel = "prev"
        \/ n.cls \in {"prev-page", "nav-previous", "btn-prev"}
        \/ n.id = "prev_chap"
        \/ Includes(t, <<"zh_shangyizhang">>)
        \/ Includes(t, <<"zh_shangzhang">>)
        \/ Includes(t, <<"ko_ijeonhwa">>)
        \/ Includes(t, <<"ko_ijeon", WS, "ko_pyeon">>)
  \/ n.id = "goPrevBtn"

NextLinks(doc) == SelectSeq(Elems(doc), LAMBDA n : nextLinkSelectors(n))
PrevLinks(doc) == SelectSeq(Elems(doc), LAMBDA n : prevLinkSelectors(n))

-----------------------------------------------------------------------------
(* URLs.  A URL string is tokenised as scheme ("https:"), "//", host, then *)
(* "/"-separated path tokens, "?" query tokens, "#" fragment tokens.       *)

SpecialScheme == ("https:" :> "https:") @@ ("http:" :> "http:") @@
                 ("HTTP:" :> "http:") @@ ("ftp:" :> "ftp:")
OpaqueScheme == {"javascript:"}
InvalidHosts == {"bad host"}

Failure ==
  [ok |-> FALSE, scheme |-> "", host |-> "", path |-> <<>>, query |-> <<>>,
   frag |-> <<>>, opaque |-> FALSE]

FirstIdx(s, S) ==
  IF \E i \in 1..Len(s) : s[i] \in S
  THEN CHOOSE i \in 1..Len(s) : s[i] \in S /\ \A j \in 1..(i - 1) : s[j] \notin S
  ELSE Len(s) + 1

LastIdx(s, S) ==
  IF \E i \in 1..Len(s) : s[i] \in S
  THEN CHOOSE i \in 1..Len(s) : s[i] \in S /\ \A j \in (i + 1)..Len(s) : s[j] \notin S
  ELSE 0

PathPart(s) == SubSeq(s, 1, FirstIdx(s, {"?", "#"}) - 1)
QueryPart(s) ==
  LET r == SubSeq(s, FirstIdx(s, {"?", "#"}), Len(s))
  IN  IF r # <<>> /\ r[1] = "?" THEN SubSeq(r, 1, FirstIdx(r, {"#"}) - 1) ELSE <<>>
FragPart(s) == SubSeq(s, FirstIdx(s, {"#"}), Len(s))

RECURSIVE SkipSlashes(_)
SkipSlashes(s) ==
  IF s # <<>> /\ s[1] \in {"/", "//"} THEN SkipSlashes(Tail(s)) ELSE s

\* new URL(s): the URL parser without a base
ParseAbs(s0) ==
  LET s == Trim(s0) IN
  IF s = <<>> THEN Failure
  ELSE IF s[1] \in OpaqueScheme
  THEN [ok |-> TRUE, scheme |-> s[1], host |-> "", path |-> Tail(s), query |-> <<>>,
        frag |-> <<>>, opaque |-> TRUE]
  ELSE IF s[1] \notin DOMAIN SpecialScheme THEN Failure
  ELSE LET r == SkipSlashes(Tail(s)) IN
       IF r = <<>> \/ r[1] \in {"?", "#"} \/ r[1] \in InvalidHosts THEN Failure
       ELSE [ok |-> TRUE, scheme |-> SpecialScheme[s[1]], host |-> r[1],
             path |-> IF PathPart(Tail(r)) = <<>> THEN <<"/">> ELSE PathPart(Tail(r)),
             query |-> QueryPart(Tail(r)), frag |-> FragPart(Tail(r)),
             opaque |-> FALSE]

\* new URL(rel, base): the URL parser with a base
ParseRel(rel0, base0) ==
  LET b == ParseAbs(base0)
      s == Trim(rel0)
  IN  IF ~b.ok THEN Failure
      ELSE IF s = <<>> THEN [b EXCEPT !.frag = <<>>]
      ELSE IF s[1] \in OpaqueScheme \/ s[1] \in DOMAIN SpecialScheme THEN ParseAbs(s)
      ELSE IF s[1] = "//" THEN ParseAbs(<<b.scheme>> \o s)
      ELSE IF s[1] = "/"
      THEN [b EXCEPT !.path = PathPart(s), !.query = QueryPart(s), !.frag = FragPart(s)]
      ELSE IF s[1] = "?" THEN [b EXCEPT !.query = QueryPart(s), !.frag = FragPart(s)]
      ELSE IF s[1] = "#" THEN [b EXCEPT !.frag = s]
      ELSE [b EXCEPT !.path = SubSeq(b.path, 1, LastIdx(b.path, {"/"})) \o PathPart(s),
                     !.query = QueryPart(s), !.frag = FragPart(s)]

\* URL.prototype.href
Href(u) ==
  IF u.opaque THEN <<u.scheme>> \o u.path
  ELSE <<u.scheme, "//", u.host>> \o u.path \o u.query \o u.frag

\* URL.prototype.origin
Origin(u) == IF u.opaque THEN <<"null">> ELSE <<u.scheme, "//", u.host>>

\* URL.prototype.protocol
Protocol(u) == u.scheme

\* resolveUrl that hands the href back without resolving it against the base
resolveUrl_Unresolved(baseUrl, relativeUrl) ==
  IF relativeUrl = Undefined \/ relativeUrl = <<>> THEN Null ELSE relativeUrl

resolveUrl(baseUrl, relativeUrl) ==
  IF relativeUrl = Undefined \/ relativeUrl = <<>> THEN Null
  ELSE IF StartsWith(relativeUrl, <<"http:", "//">>) \/ StartsWith(relativeUrl, <<"https:", "//">>)
  THEN IF ParseAbs(relativeUrl).ok THEN relativeUrl ELSE Null
  ELSE IF StartsWith(relativeUrl, <<"//">>)
  THEN LET base == ParseAbs(baseUrl)
       IN  IF base.ok THEN <<Protocol(base)>> \o relativeUrl ELSE Null
  ELSE LET u == ParseRel(relativeUrl, baseUrl)
       IN  IF u.ok THEN Href(u) ELSE Null

-----------------------------------------------------------------------------
(* Chapter number.  A regular expression is a sequence of items: "lit" one *)
(* token of a set (ci: compared in lower case), "opt" an optional token,   *)
(* "ws" \s*, "num" the capture (\d+), "end" $.                             *)

NoMatch == ""

Lit(S) == [k |-> "lit", set |-> S, ci |-> FALSE]
LitI(S) == [k |-> "lit", set |-> S, ci |-> TRUE]
Opt(S) == [k |-> "opt", set |-> S, ci |-> FALSE]
Ws == [k |-> "ws", set |-> {}, ci |-> FALSE]
Num == [k |-> "num", set |-> {}, ci |-> FALSE]
End == [k |-> "end", set |-> {}, ci |-> FALSE]

\* tokens whose last character is '/'
Slash == {"/", "//"}

combinedMatchers ==
  << <<LitI({"chapter"}), Opt({"_", "-"}), Ws, Num>>,
     <<Lit({"zh_di"}), Ws, Num, Ws, Lit({"zh_zhang", "zh_hua", "zh_pian"})>>,
     <<Num, Ws, Lit({"ko_hwa"})>>,
     <<Lit({"zh_fenjuanyuedu"}), Ws, Num>>,
     <<Lit(Slash), Num, LitI({".html"}), End>>,
     <<Lit(Slash), Num, Opt({"/"}), End>>,
     <<Lit(Slash), LitI({"novel"}), Lit({"/"}), Num>>,
     <<LitI({"viewnum=", "view_num="}), Num>> >>

TitleMatcherCount == 4

RECURSIVE MatchFrom(_, _, _, _, _)
MatchFrom(s, i, pat, j, cap) ==
  IF j > Len(pat) THEN cap
  ELSE LET e == pat[j]
           has == i <= Len(s)
       IN  CASE e.k = "lit" ->
                  IF has /\ (IF e.ci THEN ToLowerCase(<<s[i]>>)[1] ELSE s[i]) \in e.set
                  THEN MatchFrom(s, i + 1, pat, j + 1, cap) ELSE NoMatch
             [] e.k = "opt" ->
                  IF has /\ s[i] \in e.set
                  THEN MatchFrom(s, i + 1, pat, j + 1, cap)
                  ELSE MatchFrom(s, i, pat, j + 1, cap)
             [] e.k = "ws" ->
                  IF has /\ s[i] = WS
                  THEN MatchFrom(s, i + 1, pat, j, cap)
                  ELSE MatchFrom(s, i, pat, j + 1, cap)
             [] e.k = "num" ->
                  IF has /\ IsDigits(s[i])
                  THEN MatchFrom(s, i + 1, pat, j + 1, s[i]) ELSE NoMatch
             [] OTHER ->
                  IF i = Len(s) + 1
                  THEN MatchFrom(s, i, pat, j + 1, cap) ELSE NoMatch

\* s.match(regex)[1], NoMatch when the expression does not match
RECURSIVE MatchAt(_, _, _)
MatchAt(s, pat, i) ==
  IF i > Len(s) THEN NoMatch
  ELSE LET m == MatchFrom(s, i, pat, 1, NoMatch)
       IN  IF m # NoMatch THEN m ELSE MatchAt(s, pat, i + 1)

Match(s, pat) == MatchAt(s, pat, 1)

\* chapterNumber is null (<<>>) or a number (<<n>>)
NullNumber == <<>>

\* the for loop over a slice of combinedMatchers: the first expression that
\* matches decides
RECURSIVE FirstMatch(_, _, _)
FirstMatch(s, pats, cur) ==
  IF pats = <<>> THEN cur
  ELSE LET m == Match(s, Head(pats))
       IN  IF m # NoMatch THEN <<ParseInt(m)>> ELSE FirstMatch(s, Tail(pats), cur)

\* !chapterNumber
Not(n) == n = NullNumber \/ n = <<0>>

TitleNumber(title) ==
  FirstMatch(title, SubSeq(combinedMatchers, 1, TitleMatcherCount), NullNumber)

chapterNumber(title, url) ==
  LET fromTitle == TitleNumber(title) IN
  IF Not(fromTitle)
  THEN FirstMatch(url, SubSeq(combinedMatchers, TitleMatcherCount + 1, Len(combinedMatchers)),
                  fromTitle)
  ELSE fromTitle

-----------------------------------------------------------------------------
(* The handler *)

NoTitle == <<>>

ErrorResponse(status, msg) ==
  [status |-> status, error |-> msg, title |-> NoTitle, chapterNumber |-> NullNumber,
   content |-> <<>>, nextUrl |-> Null, prevUrl |-> Null]

\* the message of the thrown error without the interpolated selector
NotFoundMessage_NoSelector(sel, url) ==
  <<"Content not found. The selector \"">>
    \o <<"\" did not match any elements on the page ">> \o url
    \o <<". Try using the \"Suggest\" button.">>

NotFoundMessage(sel, url) ==
  <<"Content not found. The selector \"">> \o SelText(sel)
    \o <<"\" did not match any elements on the page ">> \o url
    \o <<". Try using the \"Suggest\" button.">>

FetchFailedMessage(url) == <<"Failed to fetch: ", "from ">> \o url

\* the catch block
Caught(url, message) ==
  ErrorResponse(500, <<"Failed to scrape chapter content from ">> \o url
                       \o <<". Reason: ">> \o message)

\* a handler that also throws when no paragraph was accepted
Scrape_ThrowsOnEmpty(html, sel, url) ==
  IF Len(Select(html, sel)) = 0 \/ finalParagraphs(Content(html, sel)) = <<>>
  THEN Caught(url, NotFoundMessage(sel, url))
  ELSE LET content == Content(html, sel)
           doc == CleanDoc(html, sel)
           title == onPageTitle(doc, sel)
       IN  [status |-> 200, error |-> <<>>,
            title |-> title,
            chapterNumber |-> chapterNumber(title, url),
            content |-> contentToReturn(content, sel, url),
            nextUrl |-> resolveUrl(url, FirstHref(NextLinks(doc))),
            prevUrl |-> resolveUrl(url, FirstHref(PrevLinks(doc)))]

\* the synchronous part of the handler, from cheerio.load to the response
Scrape(html, sel, url) ==
  IF Len(Select(html, sel)) = 0 THEN Caught(url, NotFoundMessage(sel, url))
  ELSE LET content == Content(html, sel)
           doc == CleanDoc(html, sel)
           title == onPageTitle(doc, sel)
       IN  [status |-> 200, error |-> <<>>,
            title |-> title,
            chapterNumber |-> chapterNumber(title, url),
            content |-> contentToReturn(content, sel, url),
            nextUrl |-> resolveUrl(url, FirstHref(NextLinks(doc))),
            prevUrl |-> resolveUrl(url, FirstHref(PrevLinks(doc)))]

-----------------------------------------------------------------------------
(* Requests and pages *)

MaxKids == 4
MaxFallbackKids == 3

P(t) == Elem("p", "", "", <<Txt(t)>>)
Div(ks) == Elem("div", "", "", ks)
Br == Elem("br", "", "", <<>>)
H1(t) == Elem("h1", "", "", <<Txt(t)>>)

SeqsUpTo(S, n) == UNION {[1..k -> S] : k \in 0..n}

\* children of the content element made of <p> elements
PKids ==
  { P(<<"LoremA">>), P(<<WS, "LoremB", WS>>), P(<<"Hello">>), P(<<"World">>),
    P(<<"ADVERTISEMENT", WS, "LoremA">>), P(<<"zh_qingzai", "LoremA">>) }

\* children of the content element without enough <p> elements
FallbackKids ==
  { Txt(<<"LoremA">>), Txt(<<"Hello">>), Txt(<<"zh_qingzai", WS, "LoremB">>), Br,
    Div(<<Txt(<<"Hello">>), Br, Txt(<<"World">>)>>), Div(<<Txt(<<"LoremB">>)>>),
    P(<<"Hello">>), P(<<"World">>) }

ContentKids == SeqsUpTo(PKids, MaxKids) \cup SeqsUpTo(FallbackKids, MaxFallbackKids)

Titles ==
  { <<>>,
    <<H1(<<"Chapter", WS, "42">>)>>,
    <<H1(<<"Chapter", WS, "0">>)>>,
    <<H1(<<"Chapter", "-", "00">>)>>,
    <<H1(<<"zh_di", "42", "zh_zhang">>)>>,
    <<H1(<<"5", "ko_hwa">>)>>,
    <<H1(<<"zh_fenjuanyuedu", WS, "18">>)>>,
    <<H1(<<"Prologue">>)>>,
    <<H1(<<WS>>)>>,
    <<H1(<<"Prologue">>), Elem("div", "", "chapter-title", <<Txt(<<"Hello">>)>>)>>,
    <<Elem("h2", "", "", <<Txt(<<"World">>)>>), Elem("div", "chapter-title", "", <<Txt(<<"Hello">>)>>)>> }

Hrefs ==
  { Undefined, <<>>,
    <<"/", "novel", "/", "18", ".html">>,
    <<"18", ".html">>,
    <<"?", "p=2">>,
    <<"#", "top">>,
    <<"https:", "//", "site.example", "/", "novel", "/", "18", ".html">>,
    <<"http:", "//", "other.example", "/", "18">>,
    <<"https:", "//", "bad host", "/", "18">>,
    <<"//", "cdn.example", "/", "18", ".html">>,
    <<"//", "bad host", "/", "18">>,
    <<"//">>,
    <<WS, "//", "other.example", "/", "18">>,
    <<"HTTP:", "//", "other.example", "/", "18">>,
    <<"ftp:", "//", "other.example", "/", "18">>,
    <<"javascript:", "void(0)">> }

NextA(h) == Anchor("", "", "", h, <<Txt(<<"Next", WS, "Chapter">>)>>)
PrevA(h) == Anchor("", "", "", h, <<Txt(<<"Previous">>)>>)

Navs == {<<>>} \cup {<<PrevA(h), NextA(h)>> : h \in Hrefs}

Page(title, kids, nav) ==
  Elem("html", "", "",
       << Elem("head", "", "", <<>>),
          Elem("body", "", "", title \o <<Elem("div", "content", "", kids)>> \o nav) >>)

DefaultTitle == <<H1(<<"Chapter", WS, "42">>)>>
DefaultKids == <<P(<<"LoremA">>), P(<<"LoremB">>), P(<<"LoremA">>), P(<<"LoremB">>)>>
DefaultNav == <<PrevA(<<"16", ".html">>), NextA(<<"18", ".html">>)>>

ContentPages == {Page(DefaultTitle, ks, DefaultNav) : ks \in ContentKids}
TitlePages == {Page(t, DefaultKids, DefaultNav) : t \in Titles}
NavPages == {Page(DefaultTitle, DefaultKids, n) : n \in Navs}
\* chapter prose that mentions other chapters and numbers
ProseKids ==
  { <<P(<<"LoremA">>), P(<<"LoremB", WS, "Chapter", WS, "18">>), P(<<"LoremA">>), P(<<"LoremB">>)>>,
    <<P(<<"LoremA">>), P(<<"zh_di", "18", "zh_zhang", WS, "LoremB">>), P(<<"LoremA">>), P(<<"LoremB">>)>>,
    <<P(<<"LoremA">>), P(<<"LoremB", WS, "18">>), P(<<"LoremA">>), P(<<"LoremB">>)>> }
ProseTitles == {<<>>, <<H1(<<"Prologue">>)>>, <<H1(<<"5", "ko_hwa">>)>>, DefaultTitle}
ProsePages == {Page(t, ks, DefaultNav) : t \in ProseTitles, ks \in ProseKids}
\* a page with a content element and nothing else
EmptyPage == Page(<<>>, <<>>, <<>>)
\* a page without the content element
BarePage == Elem("html", "", "", <<Elem("head", "", "", <<>>), Elem("body", "", "", DefaultTitle)>>)

HomeUrl == <<"https:", "//", "site.example", "/", "novel", "/", "17", ".html">>

Urls ==
  { HomeUrl,
    <<"https:", "//", "site.example", "/", "book", "/", "chapter", "-", "123">>,
    <<"http:", "//", "site.example", "/", "book", "/", "5", "/">>,
    <<"https:", "//", "site.example", "/", "novel", "/", "18", "/", "Prologue">>,
    <<"https:", "//", "site.example", "/", "book", "?", "viewnum=", "18">>,
    <<"https:", "//", "site.example", "/", "book", "/", "Prologue">> }

\* the documents the site may answer with at a URL
HomePages == ContentPages \cup TitlePages \cup NavPages \cup ProsePages \cup {BarePage, EmptyPage}
OtherPages == TitlePages \cup NavPages \cup ProsePages \cup {EmptyPage}
PagesAt(url) == IF url = HomeUrl THEN HomePages ELSE OtherPages

NoSelector == [kind |-> "none", val |-> ""]
Selectors == {IdSel("content"), IdSel("missing")}

NoRequest == [url |-> <<>>, selector |-> NoSelector, html |-> Txt(<<>>)]
NoResponse == ErrorResponse(0, <<>>)

-----------------------------------------------------------------------------
(* The suggest handler: scoring of candidate containers.  Scores are kept *)
(* in tenths, so that 0.5 and 0.1 of the source are the integers 5 and 1. *)

forbiddenTags ==
  { "nav", "header", "footer", "aside", "script", "style", "form", "button", "a",
    "ul", "li", "iframe", "figure", "figcaption", "input", "textarea", "select", "option" }

\* the element names of $('body').find('div, article, section, main, p')
CandidateTags == {"div", "article", "section", "main", "p"}

\* the spelling of the id and class values of the documents
AttrTokens ==
  ("content" :> <<"content">>) @@ ("novel_content" :> <<"novel", "_", "content">>) @@
  ("main-content" :> <<"main", "-", "content">>) @@
  ("entry-content" :> <<"entry", "-", "content">>) @@
  ("chapter-content" :> <<"chapter", "-", "content">>) @@
  ("article-body" :> <<"article", "-", "body">>) @@
  ("main-text" :> <<"main", "-", "text">>) @@
  ("chapter-list" :> <<"chapter", "-", "list">>) @@
  ("sidebar" :> <<"sidebar">>) @@ ("comments" :> <<"comment", "s">>) @@
  ("story" :> <<"story">>) @@ ("post" :> <<"post">>) @@ ("ad" :> <<"ad">>) @@
  ("5col" :> <<"5", "col">>)

\* String.prototype.includes on an attribute value
AttrIncludes(v, part) == Includes(AttrTokens[v], part)

\* /^[a-zA-Z][a-zA-Z0-9_-]*$/
ValidId(v) == ~IsDigits(AttrTokens[v][1]) /\ AttrTokens[v][1] \notin {"_", "-"}

\* /^[a-zA-Z_-][a-zA-Z0-9_-]*$/.test(cls) && cls.length > 2
ValidClass(v) == ~IsDigits(AttrTokens[v][1]) /\ TextLen(AttrTokens[v]) > 2

\* the elements below n in document order, each with its ancestors
RECURSIVE Walk(_, _)
Walk(n, anc) ==
  Concat([i \in 1..Len(n.kids) |->
            IF n.kids[i].type = "text" THEN <<>>
            ELSE <<[el |-> n.kids[i], parents |-> anc \o <<n>>]>>
                   \o Walk(n.kids[i], anc \o <<n>>)])

\* $('body').find('div, article, section, main, p')
BodyCandidates(html) ==
  SelectSeq(Walk(html, <<>>),
            LAMBDA c : /\ c.el.name \in CandidateTags
                       /\ \E i \in DOMAIN c.parents : c.parents[i].name = "body")

\* the test without the ancestors: $el.is(forbiddenTags)
Forbidden_SelfOnly(c) == c.el.name \in forbiddenTags

\* $el.is(forbiddenTags) || $el.parents(forbiddenTags).length > 0
Forbidden(c) ==
  \/ c.el.name \in forbiddenTags
  \/ \E i \in DOMAIN c.parents : c.parents[i].name \in forbiddenTags

isLikelyContentContainer(el) ==
  \/ el.id # "" /\ \E w \in {"content", "article", "chapter"} : AttrIncludes(el.id, <<w>>)
  \/ el.cls # "" /\ \E w \in {"content", "article", "chapter"} : AttrIncludes(el.cls, <<w>>)

directTextLength(el) ==
  TextLen(Trim(Concat([i \in 1..Len(el.kids) |->
                         IF el.kids[i].type = "text" THEN el.kids[i].data ELSE <<>>])))

pCount(el) == Len(SelectSeq(Descendants(el), LAMBDA n : n.name = "p"))
linkCount(el) == Len(SelectSeq(Descendants(el), LAMBDA n : n.name = "a"))
childElementCount(el) == Len(SelectSeq(el.kids, LAMBDA n : n.type = "tag"))

\* the early return for elements with little text, no <p> and no telling name
Skipped(el) == directTextLength(el) < 50 /\ pCount(el) < 1 /\ ~isLikelyContentContainer(el)

\* score before the bonus for a unique selector, in tenths
score(el) ==
  directTextLength(el) * 5 + pCount(el) * 300 - linkCount(el) * 100 - childElementCount(el)
  + (IF el.id \in {"novel_content", "content", "chapter-content", "article", "main-content"}
     THEN 100000 ELSE 0)
  + (IF el.cls # "" /\ \E w \in { <<"content">>, <<"chapter", "-", "body">>,
                                  <<"article", "-", "body">>, <<"main", "-", "text">>,
                                  <<"entry", "-", "content">> } : AttrIncludes(el.cls, w)
     THEN 5000 ELSE 0)
  + (IF pCount(el) > 5 THEN pCount(el) * 150 ELSE 0)
  - (IF el.id # "" /\ \E w \in {"sidebar", "comment"} : AttrIncludes(el.id, <<w>>)
     THEN 50000 ELSE 0)
  - (IF el.cls # "" /\ \E w \in {"sidebar", "comment"} : AttrIncludes(el.cls, <<w>>)
     THEN 50000 ELSE 0)

NoSel == [kind |-> "none", val |-> ""]

\* the selector derived for a candidate whose score passed the threshold; the
\* element has one class, so it is among the matches of its class selector
selector(html, c) ==
  LET el == c.el
      sc == score(el)
  IN  IF /\ el.id # ""
         /\ ~\E i \in DOMAIN c.parents : c.parents[i].id = el.id
         /\ ValidId(el.id)
         /\ Len(Select(html, IdSel(el.id))) = 1
      THEN IdSel(el.id)
      ELSE IF /\ el.cls # ""
              /\ (sc > 3000 \/ pCount(el) > 3 \/ directTextLength(el) > 500)
              /\ ValidClass(el.cls)
              /\ Len(Select(html, ClassSel(el.cls))) >= 1
              /\ Len(Select(html, ClassSel(el.cls))) <= 5
      THEN ClassSel(el.cls)
      ELSE NoSel

\* scores.set(selector, score) when score > (scores.get(selector) ?? -Infinity),
\* with the insertion order of the Map
SetMax(scores, sel, sc) ==
  IF \E i \in DOMAIN scores : scores[i].selector = sel
  THEN [i \in DOMAIN scores |->
          IF scores[i].selector = sel /\ sc > scores[i].score
          THEN [selector |-> sel, score |-> sc] ELSE scores[i]]
  ELSE Append(scores, [selector |-> sel, score |-> sc])

\* the callback of .each, as a fold over the candidates
RECURSIVE ScoreEach(_, _, _)
ScoreEach(html, cs, scores) ==
  IF cs = <<>> THEN scores
  ELSE LET c == Head(cs)
           sc == score(c.el)
           sel == selector(html, c)
           unique == IF Len(Select(html, sel)) = 1 THEN 1000 ELSE 0
       IN  ScoreEach(html, Tail(cs),
             IF Forbidden(c) \/ Skipped(c.el) \/ ~(sc > 800) \/ sel = NoSel
             THEN scores
             ELSE SetMax(scores, sel, sc + unique))

Scores(html) == ScoreEach(html, BodyCandidates(html), <<>>)

filteredScores(html, scores) ==
  SelectSeq(scores, LAMBDA e :
     \/ Len(Select(html, e.selector)) <= 10
     \/ (e.score > 50000 /\ Len(Select(html, e.selector)) <= 20))

\* Array.prototype.sort((a, b) => b[1] - a[1]): stable, descending by score
RECURSIVE SortDesc(_, _)
SortDesc(es, sorted) ==
  IF es = <<>> THEN sorted
  ELSE LET e == Head(es)
           k == Cardinality({i \in DOMAIN sorted : sorted[i].score >= e.score})
       IN  SortDesc(Tail(es), SubSeq(sorted, 1, k) \o <<e>> \o SubSeq(sorted, k + 1, Len(sorted)))

sortedCandidates(html) ==
  LET es == SortDesc(filteredScores(html, Scores(html)), <<>>)
  IN  [i \in DOMAIN es |-> es[i].selector]

LeadingSelectors ==
  <<IdSel("content"), IdSel("novel_content"), ClassSel("entry-content"), IdSel("main-content")>>

TrailingSelectors ==
  <<ClassSel("chapter-content"), TagSel("article"), ClassSel("article-body"),
    ClassSel("content"), ClassSel("main-text")>>

\* new Set(array): the first occurrence of every value, in order
RECURSIVE SetOf(_, _)
SetOf(xs, acc) ==
  IF xs = <<>> THEN acc
  ELSE SetOf(Tail(xs), IF \E i \in DOMAIN acc : acc[i] = Head(xs) THEN acc
                       ELSE Append(acc, Head(xs)))

suggestions(html) ==
  SetOf(LeadingSelectors \o sortedCandidates(html) \o TrailingSelectors, <<>>)

MaxSuggestions == 7

\* Array.prototype.slice(0, n)
Slice(xs, n) == SubSeq(xs, 1, IF Len(xs) < n THEN Len(xs) ELSE n)

\* finalSuggestions without the slice
finalSuggestions_Unsliced(html) == suggestions(html)

finalSuggestions(html) == Slice(suggestions(html), MaxSuggestions)

\* the state of a suggest invocation; list holds the selectors of the answer
NoSuggest ==
  [pc |-> "idle", url |-> <<>>, html |-> Txt(<<>>), scores |-> <<>>,
   status |-> 0, list |-> <<>>, error |-> <<>>]

-----------------------------------------------------------------------------
(* The App component: its React state and the chapter loads in flight *)

NoNovel == [id |-> "", url |-> <<>>, selector |-> NoSelector]
NoChapter ==
  [title |-> <<>>, chapterNumber |-> NullNumber, content |-> <<>>,
   nextUrl |-> Null, prevUrl |-> Null]
NoError == Null
NoDirection == ""

\* useState initial values
HomeApp ==
  [appState |-> "home", currentNovel |-> NoNovel, currentChapter |-> NoChapter,
   translatedText |-> <<>>, error |-> NoError,
   isNavigating |-> FALSE, navigatingDirection |-> NoDirection]

\* translateTextStream has not been called
NoCall == <<"<no call>">>

\* one invocation of fetchAndTranslateChapter: nav is the direction of the
\* handleNavigate that awaits it, at is the position of the invocation
NewLoad(novel, url, nav) ==
  [novel |-> novel, url |-> url, nav |-> nav, at |-> "scraping",
   scraped |-> "pending", chapter |-> NoChapter, message |-> <<>>,
   translated |-> NoCall, chunks |-> 0, isFirstChunk |-> TRUE]

\* lines 40-43
StartLoading(a) ==
  [a EXCEPT !.appState = "loading", !.translatedText = <<>>,
            !.currentChapter = NoChapter, !.error = NoError]

handleError(a, message) == [a EXCEPT !.error = message, !.appState = "error"]

\* the continuation of handleNavigate that leaves the flags as they are
AfterLoad_KeepsFlags(a, load) == a

\* the continuation of handleNavigate after the awaited load has settled
AfterLoad(a, load) ==
  IF load.nav # NoDirection
  THEN [a EXCEPT !.isNavigating = FALSE, !.navigatingDirection = NoDirection]
  ELSE a

\* String.prototype.trimStart of a chunk; a chunk keeps the load it is from
TrimStartChunk(c) == [c EXCEPT !.text = TrimStart(c.text)]

\* the state of NewNovelModal: isOpen is the prop, pending counts the
\* getSelectorSuggestions calls in flight, added is what onAddNovel received
ClosedModal ==
  [isOpen |-> FALSE, title |-> <<>>, url |-> <<>>, selector |-> <<>>,
   sourceLanguage |-> "chinese", suggestions |-> <<>>,
   isLoadingSuggestions |-> FALSE, error |-> NoError, pending |-> 0, added |-> <<>>]

\* the state of one translateWithGroqStream generator.
\* sent: the delta texts of the response; wire: the response body; pos: how
\* much of it the reader has handed out; yielded: what the generator yielded
NoStream == [at |-> "idle", sent |-> <<>>, wire |-> <<>>, pos |-> 0, yielded |-> <<>>]

-----------------------------------------------------------------------------
(* One invocation of the handler at a time *)

Init ==
  /\ pc = "idle"
  /\ req = NoRequest
  /\ res = NoResponse
  /\ paragraphs = <<>>
  /\ sug = NoSuggest
  /\ app = HomeApp
  /\ loads = <<>>
  /\ modal = ClosedModal
  /\ groq = NoStream

\* the parameter checks and the start of the fetch
Receive(url, sel) ==
  /\ pc = "idle"
  /\ UNCHANGED <<sug, app, loads, modal, groq>>
  /\ req' = [url |-> url, selector |-> sel, html |-> Txt(<<>>)]
  /\ paragraphs' = <<>>
  /\ IF url = <<>>
     THEN pc' = "done" /\ res' = ErrorResponse(400, <<"URL parameter is required">>)
     ELSE IF sel = NoSelector
     THEN pc' = "done" /\ res' = ErrorResponse(400, <<"Selector parameter is required">>)
     ELSE pc' = "fetching" /\ res' = NoResponse

\* client.fetch rejects or the response is not ok
FetchFailed ==
  /\ pc = "fetching"
  /\ pc' = "done"
  /\ res' = Caught(req.url, FetchFailedMessage(req.url))
  /\ UNCHANGED <<req, paragraphs, sug, app, loads, modal, groq>>

\* the response body arrives and the handler runs to its response
Fetched(html) ==
  /\ pc = "fetching"
  /\ pc' = "done"
  /\ req' = [req EXCEPT !.html = html]
  /\ res' = Scrape(html, req.selector, req.url)
  /\ paragraphs' = finalParagraphs(Content(html, req.selector))
  /\ UNCHANGED <<sug, app, loads, modal, groq>>

\* the invocation has answered; its locals are gone
Finish ==
  /\ pc = "done"
  /\ pc' = "idle"
  /\ req' = NoRequest
  /\ res' = NoResponse
  /\ paragraphs' = <<>>
  /\ UNCHANGED <<sug, app, loads, modal, groq>>

Next ==
  \/ \E url \in Urls \cup {<<>>}, sel \in Selectors \cup {NoSelector} : Receive(url, sel)
  \/ FetchFailed
  \/ \E html \in PagesAt(req.url) : Fetched(html)
  \/ Finish

Spec == Init /\ [][Next]_vars

-----------------------------------------------------------------------------
(* Properties of one invocation *)

Responded == pc = "done" /\ req.html.type = "tag"
Returned == Responded /\ res.status = 200

\* the request's content elements before and after the junk removal
Matched == Select(req.html, req.selector)
Cleaned == Content(req.html, req.selector)

\* C1: whenever the selector matches at least one element of the fetched
\* document, the content of the returned chapter is a non-empty string,
\* either the accepted paragraphs joined by the separator or the placeholder
\* that names the selector and the URL.
C1_ContentNeverEmpty ==
  (Responded /\ Len(Matched) >= 1) =>
     /\ res.status = 200
     /\ TextLen(res.content) > 0
     /\ \/ paragraphs # <<>> /\ res.content = Join(paragraphs, ParagraphSep)
        \/ /\ paragraphs = <<>>
           /\ res.content = Placeholder(req.selector, req.url)
           /\ Includes(res.content, SelText(req.selector))
           /\ Includes(res.content, req.url)

\* a matched content element from which nothing was accepted
C1_Witness ==
  /\ Returned
  /\ Len(Matched) >= 1
  /\ paragraphs = <<>>
  /\ res.content = Placeholder(req.selector, req.url)

\* C2: when the selector matches no element of the fetched document the
\* handler returns no chapter but an error object with a failure status
\* whose message names the selector and the URL.
C2_NoMatchIsError ==
  (Responded /\ Len(Matched) = 0) =>
     /\ res.status = 500
     /\ res.title = NoTitle /\ res.content = <<>>
     /\ Includes(res.error, SelText(req.selector))
     /\ Includes(res.error, req.url)

\* '#missing' on a fetched document
C2_Witness ==
  /\ Responded
  /\ req.selector = IdSel("missing")
  /\ Len(Matched) = 0
  /\ res.status = 500


\* the children of the content element as they were fetched
FetchedKids == IF Len(Matched) = 1 THEN Matched[1].kids ELSE <<>>

\* a <p> with non-empty text that holds no junk phrase
PlainP(n) ==
  /\ n.type = "tag" /\ n.name = "p"
  /\ Trim(TextOf(n)) # <<>>
  /\ \A ph \in JunkPhrases : ~Includes(TextOf(n), ph)
  /\ AdvertisementFree(TextOf(n))

\* C3: when the children of the selected element are one or more <p>
\* elements with non-empty junk-free text, content is their trimmed texts in
\* document order joined by a blank line (<p>Hello</p><p>World</p> gives
\* "Hello\n\nWorld").
C3_ParagraphsJoined ==
  (Returned /\ Len(FetchedKids) >= 1 /\ \A i \in DOMAIN FetchedKids : PlainP(FetchedKids[i]))
     => res.content =
          Join([i \in DOMAIN FetchedKids |-> Trim(TextOf(FetchedKids[i]))], ParagraphSep)

\* C4: after a successful scrape no paragraph of content contains a
\* configured junk phrase, whichever strategy produced it.
C4_NoJunkInParagraphs ==
  Returned => \A i \in DOMAIN paragraphs : \A ph \in JunkPhrases : ~Includes(paragraphs[i], ph)

\* C5: when a title pattern matches the extracted title, chapterNumber is
\* the integer captured from the title, whatever the URL holds.
C5_TitleBeforeUrl ==
  (Returned /\ TitleNumber(res.title) # NullNumber)
     => res.chapterNumber = TitleNumber(res.title)

\* C6: chapterNumber of a returned chapter is null or an integer >= 1.
C6_ChapterNumberPositive ==
  Returned => (res.chapterNumber = NullNumber \/ res.chapterNumber[1] >= 1)

\* C7: nextUrl and prevUrl of a returned chapter are null or an absolute,
\* syntactically valid URL, for every href of the matched link.
C7_LinksAreValidUrls ==
  Returned => \A u \in {res.nextUrl, res.prevUrl} : u = Null \/ ParseAbs(u).ok

\* the href of the first next link of the document
NextHref == FirstHref(NextLinks(CleanDoc(req.html, req.selector)))

SameOriginAsBase(u) ==
  /\ u # Null
  /\ ParseAbs(u).ok
  /\ Origin(ParseAbs(u)) = Origin(ParseAbs(req.url))

\* C8 as stated: a non-empty href that does not start with 'http://',
\* 'https://' or '//' resolves to an absolute URL with the origin of the base.
C8_NoPrefixSameOrigin ==
  (/\ Returned
   /\ NextHref \notin {Undefined, <<>>}
   /\ ~StartsWith(NextHref, <<"http:", "//">>)
   /\ ~StartsWith(NextHref, <<"https:", "//">>)
   /\ ~StartsWith(NextHref, <<"//">>))
     => SameOriginAsBase(res.nextUrl)

\* an href that is a relative reference without scheme and authority
RelativeReference(h) ==
  /\ h # Undefined
  /\ Trim(h) # <<>>
  /\ Trim(h)[1] \notin OpaqueScheme
  /\ Trim(h)[1] \notin DOMAIN SpecialScheme
  /\ Trim(h)[1] # "//"

\* C8 amended: a non-empty href that is a relative reference (a path, a
\* query or a fragment, with no scheme of any kind and no authority)
\* resolves to an absolute URL with the origin of the base.
C8_RelativeSameOrigin ==
  (Returned /\ RelativeReference(NextHref)) => SameOriginAsBase(res.nextUrl)

\* a path-relative href resolved against the directory of the base
C8_Witness ==
  /\ Returned
  /\ NextHref = <<"18", ".html">>
  /\ req.url = HomeUrl
  /\ res.nextUrl = <<"https:", "//", "site.example", "/", "novel", "/", "18", ".html">>

\* an element child of the content element that holds a <br> between two texts
HasInnerBreak(n) ==
  /\ n.type = "tag"
  /\ \E i, j, k \in DOMAIN n.kids :
        /\ i < j /\ j < k
        /\ n.kids[j].type = "tag" /\ n.kids[j].name = "br"
        /\ n.kids[i].type = "text" /\ Trim(n.kids[i].data) # <<>>
        /\ n.kids[k].type = "text" /\ Trim(n.kids[k].data) # <<>>

\* C10: in the fallback path texts separated by a <br> are separate
\* paragraphs, never one merged paragraph; a content element whose only
\* child is <div>Hello<br>World</div> gives the paragraphs Hello and World.
C10_BrBreaksParagraphs ==
  Returned =>
     /\ \A i \in DOMAIN FetchedKids :
          HasInnerBreak(FetchedKids[i]) =>
             \A j \in DOMAIN paragraphs : paragraphs[j] # Trim(TextOf(FetchedKids[i]))
     /\ FetchedKids = <<Div(<<Txt(<<"Hello">>), Br, Txt(<<"World">>)>>)>>
          => paragraphs = << <<"Hello">>, <<"World">> >>

\* C14: for every fetched document in which the selector matches at least
\* one element the handler answers 200 with a complete ScrapedChapter; a
\* missing title, chapter number, link or paragraph never makes an error,
\* so a non-200 answer to a fetched document means a zero-match selector.
C14_OnlyZeroMatchFails ==
  Responded =>
     /\ (Len(Matched) >= 1) =>
           /\ res.status = 200 /\ res.error = <<>>
           /\ res.title # NoTitle /\ res.content # <<>>
           /\ res.chapterNumber = NullNumber \/ Len(res.chapterNumber) = 1
           /\ res.nextUrl = Null \/ res.nextUrl # <<>>
           /\ res.prevUrl = Null \/ res.prevUrl # <<>>
     /\ (res.status # 200) => Len(Matched) = 0

\* a content element with no title, number, links or paragraphs around it
C14_Witness ==
  /\ Returned
  /\ req.html = EmptyPage
  /\ res.title = <<"Unknown Chapter">>
  /\ res.chapterNumber = NullNumber
  /\ res.nextUrl = Null /\ res.prevUrl = Null
  /\ paragraphs = <<>>

\* the document with every text below the content element replaced
RECURSIVE Reworded(_, _, _)
Reworded(n, sel, inside) ==
  IF n.type = "text" THEN (IF inside THEN Txt(<<"LoremA">>) ELSE n)
  ELSE [n EXCEPT !.kids = [i \in 1..Len(n.kids) |->
                             Reworded(n.kids[i], sel, inside \/ Matches(n, sel))]]

\* C15: chapterNumber does not depend on the prose: the document that
\* differs from the fetched one only in the texts of the content body gives
\* the same chapterNumber at the same URL.
C15_NumberIgnoresProse ==
  Returned =>
     res.chapterNumber = Scrape(Reworded(req.html, req.selector, FALSE),
                                req.selector, req.url).chapterNumber

\* the rank of the first title selector that matches n, 0 when none does
TitleRank(n, inside) ==
  LET t == TextOf(n) IN
  IF n.cls = "chapter-title" THEN 1
  ELSE IF n.id = "chapter-title" THEN 2
  ELSE IF Includes(t, <<"zh_fenjuanyuedu">>) THEN 3
  ELSE IF Includes(t, <<"Chapter", WS>>) THEN 4
  ELSE IF Includes(t, <<"CHAPTER", WS>>) THEN 5
  ELSE IF Includes(t, <<"zh_di">>) THEN 6
  ELSE IF n.cls = "content-title" THEN 7
  ELSE IF n.cls = "entry-title" THEN 8
  ELSE IF n.name = "h1" THEN 9
  ELSE IF n.name = "h2" THEN 10
  ELSE IF n.cls = "toon-title" THEN 11
  ELSE IF inside /\ n.name = "h3" THEN 14
  ELSE 0

\* the elements below n that a title selector matches, with their ranks
RECURSIVE Ranked(_, _, _)
Ranked(n, sel, inside) ==
  IF n.type = "text" THEN <<>>
  ELSE (IF TitleRank(n, inside) > 0
        THEN <<[el |-> n, rank |-> TitleRank(n, inside)]>> ELSE <<>>)
       \o Concat([i \in 1..Len(n.kids) |->
                    Ranked(n.kids[i], sel, inside \/ Matches(n, sel))])

RankedTitles == Ranked(CleanDoc(req.html, req.selector), req.selector, FALSE)

\* C16: the title is the trimmed text of an element matched by the
\* highest-ranked title selector that matches anything; an element matched
\* only by a lower-ranked selector is never preferred.
C16_TitleByRank ==
  (Returned /\ RankedTitles # <<>>) =>
     \E i \in DOMAIN RankedTitles :
        /\ \A j \in DOMAIN RankedTitles : RankedTitles[i].rank <= RankedTitles[j].rank
        /\ res.title \in {Trim(TextOf(RankedTitles[i].el)), <<"Unknown Chapter">>}

\* the elements the title selectors match in the document the title is read from
TitleMatches == allTitleSelectors(CleanDoc(req.html, req.selector), req.selector, FALSE)

\* C17: the title of a returned chapter is a non-empty string, and it is
\* 'Unknown Chapter' whenever no title selector matches or the first match
\* has only whitespace text.
C17_TitleNeverEmpty ==
  Returned =>
     /\ res.title # <<>>
     /\ \A i \in DOMAIN res.title : res.title[i] # ""
     /\ LET m == TitleMatches
        IN  (m = <<>> \/ Trim(FirstText(m)) = <<>>) => res.title = <<"Unknown Chapter">>

\* the first match is an <h1> that holds one space
C17_Witness ==
  /\ Returned
  /\ TitleMatches # <<>>
  /\ FirstText(TitleMatches) = <<WS>>
  /\ res.title = <<"Unknown Chapter">>

\* the condition of the primary path
PrimaryApplies ==
  /\ Len(FindP(Cleaned)) > MinPTags
  /\ TextLen(ContentText(Cleaned)) > MinContentLength

\* the <p> elements of the fetched content with non-empty junk-free text
PlainPs == SelectSeq(FetchedKids, PlainP)

\* C19: when the primary path applies, every <p> with non-empty junk-free
\* trimmed text yields exactly one paragraph, in document order, and only
\* empty and junk-matching <p> elements are skipped.
C19_PrimaryKeepsEveryP ==
  (Returned /\ PrimaryApplies) =>
     paragraphs = [i \in DOMAIN PlainPs |-> Trim(TextOf(PlainPs[i]))]

\* the fallback path ran and accepted something
FallbackProduced ==
  /\ Len(PrimaryParagraphs(Cleaned)) < MinParagraphs
  /\ paragraphs # <<>>

\* C20: when the fallback path produced the content, no two consecutive
\* paragraphs are identical, whatever the child nodes of the content
\* element are.
C20_NoConsecutiveDuplicates ==
  (Returned /\ FallbackProduced) =>
     \A i \in 1..(Len(paragraphs) - 1) : paragraphs[i] # paragraphs[i + 1]

-----------------------------------------------------------------------------
(* One invocation of the suggest handler at a time *)

MaxBlocks == 2

Ps(n) == [i \in 1..n |-> P(<<"LoremA">>)]

\* the blocks a page body is made of
Blocks ==
  { Elem("article", "article-body", "", Ps(10)),
    Elem("div", "content", "", Ps(1)),
    Elem("div", "main-content", "", Ps(6)),
    Elem("div", "", "entry-content", Ps(4)),
    Elem("div", "", "entry-content", Ps(6)),
    Elem("div", "", "post", Ps(8)),
    Elem("div", "", "main-text", Ps(2)),
    Elem("div", "", "ad", Ps(6)),
    Elem("div", "5col", "", Ps(6)),
    Elem("div", "sidebar", "", Ps(6)),
    Elem("section", "story", "", <<Txt(<<"LoremA", WS, "LoremB">>)>>),
    Elem("div", "comments", "post", Ps(4) \o <<NextA(<<"18", ".html">>)>>),
    Elem("nav", "", "", <<Elem("div", "chapter-list", "", Ps(6))>>),
    Elem("ul", "", "", <<Elem("li", "", "", <<Elem("div", "chapter-content", "", Ps(6))>>)>>),
    P(<<"Hello">>) }

SuggestPage(blocks) ==
  Elem("html", "", "", <<Elem("head", "", "", <<>>), Elem("body", "", "", blocks)>>)

SuggestPages == {SuggestPage(bs) : bs \in SeqsUpTo(Blocks, MaxBlocks)}

SuggestFailedMessage(url) == <<"Failed to fetch for suggestions: ", "from ">> \o url

SuggestCaught(url, message) ==
  <<"Failed to get suggestions for ">> \o url \o <<". Reason: ">> \o message

\* the parameter check and the start of the fetch
SuggestReceive(url) ==
  /\ sug.pc = "idle"
  /\ sug' = IF url = <<>>
            THEN [NoSuggest EXCEPT !.pc = "done", !.status = 400,
                                   !.error = <<"URL parameter is required">>]
            ELSE [NoSuggest EXCEPT !.pc = "fetching", !.url = url]
  /\ UNCHANGED <<pc, req, res, paragraphs, app, loads, modal, groq>>

\* client.fetch rejects or the response is not ok
SuggestFetchFailed ==
  /\ sug.pc = "fetching"
  /\ sug' = [sug EXCEPT !.pc = "done", !.status = 500,
                        !.error = SuggestCaught(sug.url, SuggestFailedMessage(sug.url))]
  /\ UNCHANGED <<pc, req, res, paragraphs, app, loads, modal, groq>>

\* the response body arrives and the handler runs to its response
SuggestFetched(html) ==
  /\ sug.pc = "fetching"
  /\ sug' = [sug EXCEPT !.pc = "done", !.html = html, !.status = 200,
                        !.scores = Scores(html),
                        !.list = LET f == finalSuggestions(html)
                                 IN  [i \in DOMAIN f |-> SelText(f[i])]]
  /\ UNCHANGED <<pc, req, res, paragraphs, app, loads, modal, groq>>

\* the invocation has answered; its locals are gone
SuggestFinish ==
  /\ sug.pc = "done"
  /\ sug' = NoSuggest
  /\ UNCHANGED <<pc, req, res, paragraphs, app, loads, modal, groq>>

SuggestNext ==
  \/ \E url \in {HomeUrl, <<>>} : SuggestReceive(url)
  \/ SuggestFetchFailed
  \/ \E html \in SuggestPages : SuggestFetched(html)
  \/ SuggestFinish

SuggestSpec == Init /\ [][SuggestNext]_vars

-----------------------------------------------------------------------------
(* Properties of one suggest invocation *)

Suggested == sug.pc = "done" /\ sug.status = 200

\* the scored selectors that passed the filter, with their scores
Accepted == filteredScores(sug.html, sug.scores)

\* the position of a selector string in the returned list, 0 when absent
Position(text) ==
  IF \E i \in DOMAIN sug.list : sug.list[i] = text
  THEN CHOOSE i \in DOMAIN sug.list : sug.list[i] = text
  ELSE 0

\* C11: the selector derived from the highest-scoring accepted candidate is
\* at the first position of the returned list.
C11_BestCandidateFirst ==
  (Suggested /\ Accepted # <<>>) =>
     \E i \in DOMAIN Accepted :
        /\ \A j \in DOMAIN Accepted : Accepted[i].score >= Accepted[j].score
        /\ sug.list[1] = SelText(Accepted[i].selector)

\* C12: every selector of the fixed conventional list is present in the
\* returned list, whatever scored.
C12_ConventionalAlwaysPresent ==
  Suggested =>
     \A k \in DOMAIN (LeadingSelectors \o TrailingSelectors) :
        Position(SelText((LeadingSelectors \o TrailingSelectors)[k])) > 0

\* C13: the returned list has at most 7 selector strings and no selector
\* string occurs twice in it.
C13_AtMostSevenDistinct ==
  Suggested =>
     /\ Len(sug.list) <= 7
     /\ \A i, j \in DOMAIN sug.list : sug.list[i] = sug.list[j] => i = j

\* two scored candidates, one of them also a conventional selector, and
\* more than seven distinct selectors before the cut
C13_Witness ==
  /\ Suggested
  /\ Len(Accepted) = 2
  /\ \E i \in DOMAIN Accepted : Accepted[i].selector = IdSel("content")
  /\ Len(suggestions(sug.html)) > 7
  /\ Len(sug.list) = 7

\* C18: for any two scored selectors that both appear in the returned list,
\* the one with the greater score precedes the other.
C18_ScoredDescending ==
  Suggested =>
     \A i, j \in DOMAIN Accepted :
        LET a == SelText(Accepted[i].selector)
            b == SelText(Accepted[j].selector)
        IN  (Position(a) > 0 /\ Position(b) > 0 /\ Accepted[i].score > Accepted[j].score)
               => Position(a) < Position(b)

-----------------------------------------------------------------------------
(* Further properties of one scrape invocation *)

\* C21: when no pattern matches the title, every pattern of the list, the
\* chapter[-_]?N pattern included, is tried in order against the URL: a URL
\* with 'chapter-123' and a title without chapter marker gives 123.
C21_UrlTriesEveryPattern ==
  (Returned /\ TitleNumber(res.title) = NullNumber) =>
     res.chapterNumber = FirstMatch(req.url, combinedMatchers, NullNumber)

\* the first next and previous links of the whole fetched document
DocNextLinks == NextLinks(req.html)
DocPrevLinks == PrevLinks(req.html)

\* the href does not resolve against the URL of the request
Unresolvable(h) == ~ParseRel(h, req.url).ok

\* the field the claim gives a link: absent without element or href and for
\* an href that does not resolve, else taken from the first matching element
LinkAbsent(links) ==
  \/ links = <<>>
  \/ FirstHref(links) \in {Undefined, <<>>}
  \/ Unresolvable(FirstHref(links))

\* C23: nextUrl and prevUrl come from the first element of the whole
\* document that matches the link selectors, also outside the content
\* subtree, and are absent exactly when no element matches, the first match
\* has no href or the href does not resolve against the source URL.
C23_LinkFromWholeDocument ==
  Returned =>
     /\ (res.nextUrl = Null) <=> LinkAbsent(DocNextLinks)
     /\ (res.prevUrl = Null) <=> LinkAbsent(DocPrevLinks)
     /\ res.nextUrl # Null => res.nextUrl = resolveUrl(req.url, FirstHref(DocNextLinks))
     /\ res.prevUrl # Null => res.prevUrl = resolveUrl(req.url, FirstHref(DocPrevLinks))

\* the paragraphs the <p> strategy accepted before the count test
PrimaryAccepted == PrimaryParagraphs(Cleaned)

\* C29: content is the placeholder only if neither strategy accepted a
\* paragraph: whenever the <p> strategy accepted at least one paragraph,
\* content is not the placeholder, also when it accepted fewer than 3.
C29_PlaceholderOnlyIfNothingAccepted ==
  (Returned /\ PrimaryAccepted # <<>>) =>
     /\ res.content # Placeholder(req.selector, req.url)
     /\ paragraphs # <<>>

-----------------------------------------------------------------------------
(* Further properties of one suggest invocation *)

\* the candidate lies at some depth inside a chrome element
InsideChrome(c) == \E i \in DOMAIN c.parents : c.parents[i].name \in forbiddenTags

\* a candidate below a chrome element that would have been recorded
WouldScore(html, c) ==
  /\ InsideChrome(c)
  /\ ~Skipped(c.el)
  /\ score(c.el) > 800
  /\ selector(html, c) # NoSel

\* C22: an element nested at any depth inside a forbidden chrome element
\* never contributes a score: every recorded (selector, score) pair is the
\* score of a candidate outside chrome that the selector matches, and the
\* selector of a candidate inside chrome is recorded only for such a one.
C22_ChromeNeverScores ==
  Suggested =>
     LET cs == BodyCandidates(sug.html) IN
     /\ \A k \in DOMAIN sug.scores :
          \E i \in DOMAIN cs :
             /\ ~InsideChrome(cs[i])
             /\ Matches(cs[i].el, sug.scores[k].selector)
             /\ sug.scores[k].score \in {score(cs[i].el), score(cs[i].el) + 1000}
     /\ \A i \in DOMAIN cs :
          (InsideChrome(cs[i]) /\ cs[i].el.id # "") =>
             \A k \in DOMAIN sug.scores : sug.scores[k].selector # IdSel(cs[i].el.id)

\* a container with a telling id and six <p>, two levels below a <ul>, next
\* to a container that scores
C22_Witness ==
  /\ Suggested
  /\ sug.scores # <<>>
  /\ LET cs == BodyCandidates(sug.html) IN
     \E i \in DOMAIN cs :
        /\ WouldScore(sug.html, cs[i])
        /\ Len(cs[i].parents) >= 4
        /\ cs[i].el.id = "chapter-content"

-----------------------------------------------------------------------------
(* The App: chapter loads started by the user, settled by the services *)

MaxLoads == 3
MaxChunks == 1

Novels == { [id |-> "n1", url |-> HomeUrl, selector |-> IdSel("content")] }

\* what scrapeChapter may resolve with
Chapters ==
  { [title |-> <<"Chapter", WS, "42">>, chapterNumber |-> <<42>>, content |-> <<"LoremA">>,
     nextUrl |-> <<"https:", "//", "site.example", "/", "novel", "/", "18", ".html">>,
     prevUrl |-> <<"https:", "//", "site.example", "/", "novel", "/", "16", ".html">>],
    [title |-> <<"Prologue">>, chapterNumber |-> NullNumber, content |-> <<"LoremB">>,
     nextUrl |-> Null, prevUrl |-> Null] }

ScrapeFailure == <<"Failed to scrape chapter content. Reason: ", "Scraping failed">>
StreamFailure == <<"Groq API error">>

\* the text of the k-th chunk of a translation stream
ChunkText(k) == IF k = 1 THEN <<WS, "Hello">> ELSE <<"World">>

\* the reader is on screen with its Home, Previous and Next buttons
ReaderShown ==
  /\ app.appState = "reader"
  /\ app.currentChapter # NoChapter
  /\ app.currentNovel # NoNovel

handleSelectNovel(novel) ==
  /\ app.appState = "home"
  /\ Len(loads) < MaxLoads
  /\ app' = StartLoading(app)
  /\ loads' = Append(loads, NewLoad(novel, novel.url, NoDirection))
  /\ UNCHANGED <<pc, req, res, paragraphs, sug, modal, groq>>

handleNavigate(direction) ==
  LET url == IF direction = "next" THEN app.currentChapter.nextUrl
             ELSE app.currentChapter.prevUrl
  IN  /\ ReaderShown
      /\ url # Null
      /\ ~app.isNavigating
      /\ Len(loads) < MaxLoads
      /\ app' = StartLoading([app EXCEPT !.isNavigating = TRUE,
                                         !.navigatingDirection = direction])
      /\ loads' = Append(loads, NewLoad(app.currentNovel, url, direction))
      /\ UNCHANGED <<pc, req, res, paragraphs, sug, modal, groq>>

handleHome ==
  /\ ReaderShown \/ app.appState = "error"
  /\ app' = [app EXCEPT !.appState = "home", !.currentNovel = NoNovel,
                        !.currentChapter = NoChapter, !.translatedText = <<>>,
                        !.error = NoError]
  /\ UNCHANGED <<pc, req, res, paragraphs, sug, loads, modal, groq>>

\* scrapeChapter resolves: lines 46-51
ScrapeResolved(l, chapterData) ==
  /\ loads[l].at = "scraping"
  /\ app' = [app EXCEPT !.currentChapter = chapterData, !.currentNovel = loads[l].novel,
                        !.appState = "reader"]
  /\ loads' = [loads EXCEPT ![l] = [@ EXCEPT !.at = "streaming", !.scraped = "ok",
                                             !.chapter = chapterData,
                                             !.translated = chapterData.content]]
  /\ UNCHANGED <<pc, req, res, paragraphs, sug, modal, groq>>

\* a load whose failed scrape still starts the translation
ScrapeRejected_Translates(l, message) ==
  /\ loads[l].at = "scraping"
  /\ app' = AfterLoad(handleError(app, message), loads[l])
  /\ loads' = [loads EXCEPT ![l] = [@ EXCEPT !.at = "done", !.scraped = "failed",
                                             !.message = message,
                                             !.translated = <<"LoremA">>]]
  /\ UNCHANGED <<pc, req, res, paragraphs, sug, modal, groq>>

\* scrapeChapter rejects: the catch block
ScrapeRejected(l, message) ==
  /\ loads[l].at = "scraping"
  /\ app' = AfterLoad(handleError(app, message), loads[l])
  /\ loads' = [loads EXCEPT ![l] = [@ EXCEPT !.at = "done", !.scraped = "failed",
                                             !.message = message]]
  /\ UNCHANGED <<pc, req, res, paragraphs, sug, modal, groq>>

\* one iteration of the for await loop
StreamChunk(l) ==
  /\ loads[l].at = "streaming"
  /\ loads[l].chunks < MaxChunks
  /\ LET chunk == [load |-> l, text |-> ChunkText(loads[l].chunks + 1)]
     IN  app' = [app EXCEPT !.translatedText =
                    IF loads[l].isFirstChunk THEN <<TrimStartChunk(chunk)>>
                    ELSE Append(@, chunk)]
  /\ loads' = [loads EXCEPT ![l] = [@ EXCEPT !.chunks = @ + 1, !.isFirstChunk = FALSE]]
  /\ UNCHANGED <<pc, req, res, paragraphs, sug, modal, groq>>

\* the stream is exhausted
StreamEnd(l) ==
  /\ loads[l].at = "streaming"
  /\ app' = AfterLoad(app, loads[l])
  /\ loads' = [loads EXCEPT ![l] = [@ EXCEPT !.at = "done"]]
  /\ UNCHANGED <<pc, req, res, paragraphs, sug, modal, groq>>

\* the stream throws: the catch block
StreamRejected(l, message) ==
  /\ loads[l].at = "streaming"
  /\ app' = AfterLoad(handleError(app, message), loads[l])
  /\ loads' = [loads EXCEPT ![l] = [@ EXCEPT !.at = "done", !.message = message]]
  /\ UNCHANGED <<pc, req, res, paragraphs, sug, modal, groq>>

\* the steps of the services for one load
Settle(l) ==
  /\ l \in DOMAIN loads
  /\ \/ \E chapterData \in Chapters : ScrapeResolved(l, chapterData)
     \/ ScrapeRejected(l, ScrapeFailure)
     \/ StreamChunk(l)
     \/ StreamEnd(l)
     \/ StreamRejected(l, StreamFailure)

AppNext ==
  \/ \E novel \in Novels : handleSelectNovel(novel)
  \/ \E direction \in {"next", "prev"} : handleNavigate(direction)
  \/ handleHome
  \/ \E l \in DOMAIN loads : \E chapterData \in Chapters : ScrapeResolved(l, chapterData)
  \/ \E l \in DOMAIN loads : ScrapeRejected(l, ScrapeFailure)
  \/ \E l \in DOMAIN loads : StreamChunk(l)
  \/ \E l \in DOMAIN loads : StreamEnd(l)
  \/ \E l \in DOMAIN loads : StreamRejected(l, StreamFailure)

AppSpec == Init /\ [][AppNext]_vars

\* the scrape and the stream of every load terminate
AppLiveSpec == AppSpec /\ \A l \in 1..MaxLoads : WF_vars(Settle(l))

-----------------------------------------------------------------------------
(* Properties of the App *)

\* C24: the translation stream of a load is started only after the scrape
\* of that load has resolved, with that chapter's content; when the scrape
\* fails the stream is never started for the load and the app goes to the
\* error state with the failure message.
C24_TranslateAfterScrape ==
  [][\A l \in DOMAIN loads' :
        /\ loads'[l].translated # NoCall =>
              /\ loads'[l].scraped = "ok"
              /\ loads'[l].translated = loads'[l].chapter.content
        /\ loads'[l].scraped # "ok" => loads'[l].translated = NoCall
        /\ (l \in DOMAIN loads /\ loads[l].scraped = "pending"
              /\ loads'[l].scraped = "failed") =>
              /\ app'.appState = "error"
              /\ app'.error = loads'[l].message]_vars

\* one load translated its chapter, a later one failed to scrape
C24_Witness ==
  /\ \E l \in DOMAIN loads : loads[l].translated # NoCall /\ loads[l].chunks > 0
  /\ \E l \in DOMAIN loads : loads[l].scraped = "failed"
  /\ app.appState = "error"
  /\ app.error = ScrapeFailure

\* C26: translatedText only holds chunks of the most recently started load,
\* under every interleaving of two loads.
C26_OnlyLatestLoadShown ==
  \A i \in DOMAIN app.translatedText : app.translatedText[i].load = Len(loads)

\* C27: after handleHome the app stays in 'home' with currentChapter,
\* translatedText and error cleared until the user selects a novel; a load
\* that was started earlier changes none of them when it settles late.
C27_HomeStaysHome ==
  [][(app.appState = "home" /\ Len(loads') = Len(loads)) =>
        /\ app'.appState = "home"
        /\ app'.currentChapter = NoChapter
        /\ app'.translatedText = <<>>
        /\ app'.error = NoError]_vars

\* a navigation started by handleNavigate has not settled
NavigationInFlight ==
  \E l \in DOMAIN loads : loads[l].nav # NoDirection /\ loads[l].at # "done"

NavigationFlagTrue ==
  /\ app.isNavigating <=> NavigationInFlight
  /\ app.isNavigating <=> app.navigatingDirection # NoDirection

NoSecondNavigation ==
  [][app.isNavigating =>
        \A l \in DOMAIN loads' : l \notin DOMAIN loads => loads'[l].nav = NoDirection]_vars

NavigationSettles ==
  app.isNavigating ~> (~app.isNavigating /\ app.navigatingDirection = NoDirection)

\* C28: isNavigating is true only while a navigation is in flight, no second
\* navigation starts while it is true, and every navigation eventually sets
\* isNavigating to false and navigatingDirection to null, also when its
\* scrape or its translation fails.
C28_NavigationFlag == []NavigationFlagTrue /\ NoSecondNavigation /\ NavigationSettles

\* a navigation whose scrape failed has reset the flags
C28_Witness ==
  /\ \E l \in DOMAIN loads :
        loads[l].nav # NoDirection /\ loads[l].at = "done" /\ loads[l].scraped = "failed"
  /\ ~app.isNavigating
  /\ app.navigatingDirection = NoDirection

-----------------------------------------------------------------------------
(* NewNovelModal: the form and its getSelectorSuggestions calls *)

MaxPending == 2
MaxAdded == 1

TypedTitles == { <<"Novel">> }
TypedUrls == { HomeUrl, <<"novel", "/", "17", ".html">> }
TypedSelectors == { <<".", "text">> }

\* what getSelectorSuggestions may resolve with
FetchedSuggestions == { <<>>, << <<"#", "content">>, <<"article">> >> }

SuggestionsFailure == <<"Scraping for suggestions failed: ", "500">>
NoSelectorsMessage ==
  <<"Could not automatically find any content selectors. Please enter one manually.">>
InvalidUrlMessage == <<"Please enter a valid URL.">>

\* the App's onAddNewNovel
OpenModal ==
  /\ ~modal.isOpen
  /\ modal' = [modal EXCEPT !.isOpen = TRUE]
  /\ UNCHANGED <<pc, req, res, paragraphs, sug, app, loads, groq>>

setTitle(value) ==
  /\ modal.isOpen
  /\ modal' = [modal EXCEPT !.title = value]
  /\ UNCHANGED <<pc, req, res, paragraphs, sug, app, loads, groq>>

setUrl(value) ==
  /\ modal.isOpen
  /\ modal' = [modal EXCEPT !.url = value]
  /\ UNCHANGED <<pc, req, res, paragraphs, sug, app, loads, groq>>

\* typed into the selector field, or a click on one of the suggestions
setSelector(value) ==
  /\ modal.isOpen
  /\ modal' = [modal EXCEPT !.selector = value]
  /\ UNCHANGED <<pc, req, res, paragraphs, sug, app, loads, groq>>

setSourceLanguage(value) ==
  /\ modal.isOpen
  /\ modal' = [modal EXCEPT !.sourceLanguage = value]
  /\ UNCHANGED <<pc, req, res, paragraphs, sug, app, loads, groq>>

\* the Suggest button, up to the await
handleFetchSuggestions ==
  /\ modal.isOpen
  /\ ~modal.isLoadingSuggestions
  /\ modal.url # <<>>
  /\ IF ~ParseAbs(modal.url).ok
     THEN modal' = [modal EXCEPT !.error = InvalidUrlMessage]
     ELSE /\ modal.pending < MaxPending
          /\ modal' = [modal EXCEPT !.error = NoError, !.isLoadingSuggestions = TRUE,
                                    !.suggestions = <<>>, !.pending = @ + 1]
  /\ UNCHANGED <<pc, req, res, paragraphs, sug, app, loads, groq>>

\* getSelectorSuggestions resolves: the rest of the try block and finally
SuggestionsResolved(fetchedSuggestions) ==
  /\ modal.pending > 0
  /\ modal' = [modal EXCEPT
                 !.pending = @ - 1,
                 !.suggestions = fetchedSuggestions,
                 !.selector = IF Len(fetchedSuggestions) > 0 THEN fetchedSuggestions[1] ELSE @,
                 !.error = IF Len(fetchedSuggestions) > 0 THEN @ ELSE NoSelectorsMessage,
                 !.isLoadingSuggestions = FALSE]
  /\ UNCHANGED <<pc, req, res, paragraphs, sug, app, loads, groq>>

\* getSelectorSuggestions rejects: catch and finally
SuggestionsRejected(message) ==
  /\ modal.pending > 0
  /\ modal' = [modal EXCEPT !.pending = @ - 1, !.error = message,
                            !.isLoadingSuggestions = FALSE]
  /\ UNCHANGED <<pc, req, res, paragraphs, sug, app, loads, groq>>

\* the fields handleClose resets, and onClose
Closed(m) ==
  [m EXCEPT !.title = <<>>, !.url = <<>>, !.selector = <<>>, !.suggestions = <<>>,
            !.error = NoError, !.isLoadingSuggestions = FALSE, !.isOpen = FALSE]

\* the close button, Cancel, and the Modal's own onClose
handleClose ==
  /\ modal.isOpen
  /\ modal' = Closed(modal)
  /\ UNCHANGED <<pc, req, res, paragraphs, sug, app, loads, groq>>

\* the Add Novel button
handleSubmit ==
  /\ modal.isOpen
  /\ modal.title # <<>> /\ modal.url # <<>> /\ modal.selector # <<>>
  /\ Len(modal.added) < MaxAdded
  /\ modal' = Closed([modal EXCEPT !.added =
                 Append(@, [title |-> modal.title, url |-> modal.url,
                            selector |-> modal.selector,
                            sourceLanguage |-> modal.sourceLanguage])])
  /\ UNCHANGED <<pc, req, res, paragraphs, sug, app, loads, groq>>

ModalNext ==
  \/ OpenModal
  \/ \E value \in TypedTitles \cup {<<>>} : setTitle(value)
  \/ \E value \in TypedUrls \cup {<<>>} : setUrl(value)
  \/ \E value \in TypedSelectors \cup {<<>>}
                    \cup {modal.suggestions[i] : i \in DOMAIN modal.suggestions} :
        setSelector(value)
  \/ \E value \in {"chinese", "korean"} : setSourceLanguage(value)
  \/ handleFetchSuggestions
  \/ \E fetchedSuggestions \in FetchedSuggestions : SuggestionsResolved(fetchedSuggestions)
  \/ SuggestionsRejected(SuggestionsFailure)
  \/ handleClose
  \/ handleSubmit

ModalSpec == Init /\ [][ModalNext]_vars

\* the fields that handleClose resets hold their initial values
FormReset ==
  /\ modal.selector = <<>>
  /\ modal.suggestions = <<>>
  /\ modal.error = NoError
  /\ ~modal.isLoadingSuggestions

\* C30: once handleClose has run the form stays reset until the user opens
\* the modal again: a getSelectorSuggestions call that was in flight when
\* the modal was closed writes neither its result nor its error.
C30_ClosedFormStaysReset == ~modal.isOpen => FormReset

-----------------------------------------------------------------------------
(* translateWithGroqStream: the server-sent events of the response, read
   in chunks.  A chunk is a sequence of the tokens below; a network read
   ends between any two of them. *)

MaxDeltas == 2

NL == "\n"
DataPrefix == "data: "
DoneMark == "[DONE]"
JRole == "{choices:[{delta:{role:assistant}}]}"
JOpen == "{choices:[{delta:{content:"
JClose == "}}]}"
DeltaTexts == {"Hel", "lo"}

\* the deltas a response may carry
DeltaSeqs == UNION { [1..n -> DeltaTexts] : n \in 0..MaxDeltas }

RECURSIVE Events(_)
Events(ds) ==
  IF ds = <<>> THEN <<>>
  ELSE <<DataPrefix, JOpen, Head(ds), JClose, NL, NL>> \o Events(Tail(ds))

\* the body of a streamed chat completion: the role, the deltas, [DONE]
Wire(ds) ==
  <<DataPrefix, JRole, NL, NL>> \o Events(ds) \o <<DataPrefix, DoneMark, NL, NL>>

\* chunk.split('\n')
RECURSIVE SplitLines(_, _)
SplitLines(s, line) ==
  IF s = <<>> THEN <<line>>
  ELSE IF Head(s) = NL THEN <<line>> \o SplitLines(Tail(s), <<>>)
  ELSE SplitLines(Tail(s), Append(line, Head(s)))

\* .filter(line => line.startsWith('data: '))
DataLines(chunk) ==
  SelectSeq(SplitLines(chunk, <<>>), LAMBDA line : line # <<>> /\ line[1] = DataPrefix)

\* JSON.parse(jsonStr).choices[0]?.delta?.content when it is truthy; a
\* string that is not JSON throws, which the catch block logs
ParsedContent(jsonStr) ==
  IF Len(jsonStr) = 3 /\ jsonStr[1] = JOpen /\ jsonStr[3] = JClose
  THEN <<jsonStr[2]>>
  ELSE <<>>

\* for (const line of lines): what is yielded, and whether [DONE] returned
RECURSIVE ForLines(_, _)
ForLines(lines, out) ==
  IF lines = <<>> THEN [yielded |-> out, returned |-> FALSE]
  ELSE LET jsonStr == Tail(Head(lines))
       IN  IF jsonStr = <<DoneMark>> THEN [yielded |-> out, returned |-> TRUE]
           ELSE ForLines(Tail(lines), out \o ParsedContent(jsonStr))

\* the response arrives
StartStream(ds) ==
  /\ groq.at = "idle"
  /\ groq' = [at |-> "reading", sent |-> ds, wire |-> Wire(ds), pos |-> 0,
              yielded |-> <<>>]
  /\ UNCHANGED <<pc, req, res, paragraphs, sug, app, loads, modal>>

\* reader.read() hands out the next n tokens: one iteration of while (true)
Read(n) ==
  /\ groq.at = "reading"
  /\ groq.pos + n <= Len(groq.wire)
  /\ LET chunk == SubSeq(groq.wire, groq.pos + 1, groq.pos + n)
         r == ForLines(DataLines(chunk), groq.yielded)
     IN  groq' = [groq EXCEPT !.pos = @ + n, !.yielded = r.yielded,
                              !.at = IF r.returned THEN "returned" ELSE @]
  /\ UNCHANGED <<pc, req, res, paragraphs, sug, app, loads, modal>>

\* reader.read() reports done: break
ReadDone ==
  /\ groq.at = "reading"
  /\ groq.pos = Len(groq.wire)
  /\ groq' = [groq EXCEPT !.at = "returned"]
  /\ UNCHANGED <<pc, req, res, paragraphs, sug, app, loads, modal>>

StreamNext ==
  \/ \E ds \in DeltaSeqs : StartStream(ds)
  \/ \E n \in 1..(Len(groq.wire) - groq.pos) : Read(n)
  \/ ReadDone

StreamSpec == Init /\ [][StreamNext]_vars

\* C25: the generator yields every delta of the response before [DONE]
\* exactly once and in order, whatever the sizes of the network reads.
C25_EveryDeltaOnce == groq.at = "returned" => groq.yielded = groq.sent

====
